---- MODULE Spec2Model ----
(***************************************************************************)
(* The chatbot agent of agentic-assistant: the session store, the NATS     *)
(* correlator (incoming.messages and response.messages.<user_id>), the     *)
(* tool dispatcher ExecuteToolCall and the turn driver processMessage.     *)
(* Every goroutine is a record with a program counter; an action is one    *)
(* stretch of code between two accesses to shared state or to a            *)
(* collaborator (session map, session fields, Gemini, MCP, NATS).          *)
(***************************************************************************)
EXTENDS Integers, Sequences, FiniteSets, TLC

VARIABLES userSessions, heap, chats, turns, incoming, nInbound,
          waiters, nPublished, crashed, lastWebhook, lastUpdate

vars == <<userSessions, heap, chats, turns, incoming, nInbound,
          waiters, nPublished, crashed, lastWebhook, lastUpdate>>

(***************************************************************************)
(* Bounds of the model.                                                    *)
(***************************************************************************)
\* processMessage goroutines that can be alive at once, and inbound
\* messages of the concurrent scenario
MaxTurns == 2
\* parts of one model response in the one-turn-at-a-time scenario
MaxParts == 2
\* inbound messages of the one-turn-at-a-time scenario
SeqMsgs == 2
\* calls of GetResponseFromNATS
MaxWaiters == 1
\* SendResponse calls of the correlator scenario
MaxPublish == 2

TurnIds == 1..MaxTurns
WaiterIds == 1..MaxWaiters

(***************************************************************************)
(* Values.                                                                 *)
(***************************************************************************)
\* senders of inbound messages
Users == {"u1", "u2"}
\* values of the :user_id path parameter of GET /response/:user_id
PathParams == Users \cup {"*"}
\* text parts the model answers with
Texts == {"t1", "t2"}
InboundTexts == {"hola"}

NoTokens == "nil"
FileTokens == "token.json"

\* the five tools declared to the model and the MCP operation behind each
KnownTools == {"list_calendar_events", "create_calendar_event", "send_email",
               "list_contacts", "create_contact"}

OpOf(toolName) ==
    CASE toolName = "list_calendar_events" -> "CalendarService.ListEvents"
      [] toolName = "create_calendar_event" -> "CalendarService.CreateEvent"
      [] toolName = "send_email" -> "GmailService.SendEmail"
      [] toolName = "list_contacts" -> "ContactsService.ListConnections"
      [] toolName = "create_contact" -> "ContactsService.CreateContact"
      [] OTHER -> "none"

\* a dynamically typed argument value of a FunctionCall
\* a float64 is n + tenths/10 with n >= 0, or, when over is set, 2^31 + n:
\* a number no int32 can hold
Str(v) == [type |-> "string", s |-> v, n |-> 0, tenths |-> 0, over |-> FALSE]
Num(v) == [type |-> "number", s |-> "", n |-> v, tenths |-> 0, over |-> FALSE]
NumFrac(v, d) == [type |-> "number", s |-> "", n |-> v, tenths |-> d, over |-> FALSE]
NumOver(v) == [type |-> "number", s |-> "", n |-> v, tenths |-> 0, over |-> TRUE]

\* an int32 field of a request; the conversion of a float64 that no int32
\* can hold succeeds with a value the implementation chooses
Int32Val(k) == [type |-> "int32", n |-> k, defined |-> TRUE]
Int32Unspecified == [type |-> "int32", n |-> 0, defined |-> FALSE]

\* int32(val) for a float64 val: the fraction is cut off
Int32(x) == IF x.over THEN Int32Unspecified ELSE Int32Val(x.n)

NoArgs == [k \in {} |-> Str("")]
ArgsJoe == [display_name |-> Str("Joe Doe"), email |-> Str("joe.doe@example.com"),
            phone_number |-> Str("1234567890")]

\* args[k].(string): the value and whether the assertion held
StrArg(args, k) == IF k \in DOMAIN args /\ args[k].type = "string" THEN args[k].s ELSE ""
HasStr(args, k) == k \in DOMAIN args /\ args[k].type = "string"

\* a type assertion that never holds
NeverNum(args, k) == FALSE

\* args[k].(float64)
HasNum(args, k) == k \in DOMAIN args /\ args[k].type = "number"

\* parts of a model response
TextPart(s) == [kind |-> "text", text |-> s, name |-> "", args |-> NoArgs]
CallPart(nm, a) == [kind |-> "call", text |-> "", name |-> nm, args |-> a]

\* the parts a response is drawn from: two texts, a known tool and a name
\* that is not one of the five
Parts == {TextPart(s) : s \in Texts}
           \cup {CallPart("create_contact", ArgsJoe), CallPart("drop_database", NoArgs)}

SeqsUpTo(S, n) == UNION {[1..k -> S] : k \in 0..n}

NoCandidates == [candidates |-> 0, parts |-> <<>>]
Response(ps) == [candidates |-> 1, parts |-> ps]
\* what SendMessage can return without an error
Responses(n) == {NoCandidates} \cup {Response(ps) : ps \in SeqsUpTo(Parts, n)}

\* what the model answers to a batch of tool results: nothing, no part,
\* texts, a new call before a text, a new call alone
FinalResponses ==
    {NoCandidates, Response(<<>>), Response(<<TextPart("t1")>>),
     Response(<<TextPart("t2"), TextPart("t1")>>),
     Response(<<CallPart("create_contact", ArgsJoe), TextPart("t2")>>),
     Response(<<CallPart("create_contact", ArgsJoe)>>)}

\* responses of the concurrent and the end-to-end scenarios
SmallResponses == {NoCandidates, Response(<<>>), Response(<<TextPart("t1")>>),
                   Response(<<CallPart("create_contact", ArgsJoe)>>)}

\* the fixed messages of processMessage
AuthMsg(e) ==
    "Lo siento, necesito que autorices tu cuenta de Google. Puedes hacerlo siguiendo las instrucciones del servidor MCP. (Error: "
        \o e \o ")"
ModelErrMsg ==
    "Lo siento, hubo un error al procesar tu solicitud con el modelo de IA. Intenta de nuevo."
ToolSubmitErrMsg == "Lo siento, hubo un error al comunicar el resultado de las acciones."
FallbackMsg == "Lo siento, no pude generar una respuesta clara."

\* the two errors of LoadAndPrepareTokens; <err> stands for the text of the
\* wrapped error of ioutil.ReadFile or json.Unmarshal
LoadErrors ==
    {"unable to read token.json: <err>. Please ensure the MCP server has run and authorized.",
     "unable to unmarshal token.json: <err>"}

(***************************************************************************)
(* The tool dispatcher.                                                    *)
(***************************************************************************)
\* what the MCP server can do with one RPC: answer, fail, answer with the
\* status "ERROR", or never answer
ExtOutcomes == {"ok", "rpc_error", "status_error", "no_reply"}

\* rpcCtx, cancel := context.WithTimeout(ctx, 15*time.Second)
RpcTimeout == 15

\* an RPC that gives up on nothing but a transport failure
RpcErrorOnlyTransport(ext) == ext = "rpc_error"

\* err != nil after the RPC: the transport failed, or rpcCtx ran out while
\* the server had not answered
RpcError(ext) == ext \in {"rpc_error", "no_reply"}

\* the time the RPC took, at most
Waited(ext) == IF ext = "no_reply" THEN RpcTimeout ELSE 0

NoReq == [op |-> "none", common |-> NoTokens, fields |-> NoArgs]

\* a request that leaves the caller's tokens and arguments out
BuildRequestNoTokens(tokens, toolName, args) ==
    [op |-> OpOf(toolName), common |-> NoTokens, fields |-> NoArgs]

BuildRequest(tokens, toolName, args) ==
    [op |-> OpOf(toolName), common |-> tokens,
     fields |->
       CASE toolName = "list_calendar_events" ->
              [calendar_id |-> IF HasStr(args, "calendar_id")
                               THEN Str(args["calendar_id"].s) ELSE Str("primary"),
               max_results |-> IF HasNum(args, "max_results")
                               THEN Int32(args["max_results"]) ELSE Int32Val(10)]
         [] toolName = "create_calendar_event" ->
              [calendar_id |-> Str(StrArg(args, "calendar_id")),
               summary |-> Str(StrArg(args, "summary")),
               description |-> Str(StrArg(args, "description")),
               start_time |-> Str(StrArg(args, "start_time")),
               end_time |-> Str(StrArg(args, "end_time")),
               time_zone |-> Str(StrArg(args, "time_zone"))]
         [] toolName = "send_email" ->
              [to |-> Str(StrArg(args, "to")),
               subject |-> Str(StrArg(args, "subject")),
               body |-> Str(StrArg(args, "body"))]
         [] toolName = "list_contacts" ->
              [page_size |-> IF HasNum(args, "page_size")
                             THEN Int32(args["page_size"]) ELSE Int32Val(10)]
         [] OTHER ->
              [display_name |-> Str(StrArg(args, "display_name")),
               email |-> Str(StrArg(args, "email")),
               phone_number |-> Str(StrArg(args, "phone_number"))]]

NoOut == [tool |-> "", of |-> NoReq]
\* a payload that does not say which tool it comes from
SuccessPayloadUntagged(toolName, req) == [tool |-> "", of |-> req]

\* the success payload: the summary ExecuteToolCall builds from the reply
\* to req
SuccessPayload(toolName, req) == [tool |-> toolName, of |-> req]

\* a dispatcher that answers every name with a success and calls nothing
ExecuteUnknownSucceeds(tokens, toolName, args, ext) ==
    [called |-> "none", req |-> NoReq, rpcs |-> <<>>, ok |-> TRUE,
     out |-> SuccessPayload(toolName, NoReq), err |-> ""]

\* a dispatcher that does not look at resp.Common.Status
ExecuteIgnoresStatus(tokens, toolName, args, ext) ==
    IF toolName \notin KnownTools
    THEN [called |-> "none", req |-> NoReq, rpcs |-> <<>>, ok |-> FALSE, out |-> NoOut,
          err |-> "unknown tool: " \o toolName]
    ELSE LET req == BuildRequest(tokens, toolName, args) IN
         IF RpcError(ext)
         THEN [called |-> req.op, req |-> req, rpcs |-> <<req>>, ok |-> FALSE,
               out |-> NoOut, err |-> toolName \o " RPC failed: <err>"]
         ELSE [called |-> req.op, req |-> req, rpcs |-> <<req>>, ok |-> TRUE,
               out |-> SuccessPayload(toolName, req), err |-> ""]

\* ExecuteToolCall with the outcome ext of the RPC it makes; rpcs are the
\* requests it sent to the MCP server, in order
ExecuteToolCall(tokens, toolName, args, ext) ==
    IF toolName \notin KnownTools
    THEN [called |-> "none", req |-> NoReq, rpcs |-> <<>>, ok |-> FALSE, out |-> NoOut,
          err |-> "unknown tool: " \o toolName]
    ELSE LET req == BuildRequest(tokens, toolName, args) IN
         CASE RpcError(ext) ->
                [called |-> req.op, req |-> req, rpcs |-> <<req>>, ok |-> FALSE,
                 out |-> NoOut, err |-> toolName \o " RPC failed: <err>"]
           [] ext = "status_error" ->
                [called |-> req.op, req |-> req, rpcs |-> <<req>>, ok |-> FALSE,
                 out |-> NoOut, err |-> toolName \o " MCP error: <message>"]
           [] OTHER ->
                [called |-> req.op, req |-> req, rpcs |-> <<req>>, ok |-> TRUE,
                 out |-> SuccessPayload(toolName, req), err |-> ""]

\* the outcomes the RPC of a call to toolName can have (none is made for
\* an unknown tool)
OutcomesOf(toolName) == IF toolName \in KnownTools THEN ExtOutcomes ELSE {"no_rpc"}

(***************************************************************************)
(* The response bus: subjects, envelopes and delivery.                     *)
(***************************************************************************)
\* natsResponseSubjectPrefix + userID, as the tokens NATS splits it into
\* (the user ids of the model hold no '.')
ResponseSubject(userID) == <<"response", "messages", userID>>

\* NATS subject matching: '*' stands for one token, '>' for the rest
RECURSIVE SubjectMatches(_, _)
SubjectMatches(pattern, subject) ==
    IF pattern = <<>> THEN subject = <<>>
    ELSE IF Head(pattern) = ">" THEN subject # <<>>
    ELSE /\ subject # <<>>
         /\ (Head(pattern) = "*" \/ Head(pattern) = Head(subject))
         /\ SubjectMatches(Tail(pattern), Tail(subject))

\* json.Marshal coerces a string to valid UTF-8
InvalidUTF8 == {"\\xff"}
ToValidUTF8(s) == IF s \in InvalidUTF8 THEN "\\ufffd" ELSE s

\* json.Marshal of the OutgoingWhatsAppMessage SendResponse builds
JsonMarshalOutgoing(userID, message) ==
    [json |-> TRUE, to |-> userID, body |-> ToValidUTF8(message)]

NoData == [json |-> FALSE, to |-> "", body |-> ""]

\* the text the subscription callback hands to the waiter for msg.Data
CallbackTextAlwaysError(data) == "Error processing response."

CallbackText(data) == IF data.json THEN data.body ELSE "Error processing response."

NoResult == [kind |-> "none", text |-> "", to |-> ""]

\* a call of GetResponseFromNATS. History kept for the properties: first, the
\* messages SendResponse was given for the envelopes that reached the
\* subscription, the first one only; pubs, the messages published for the
\* call's own user while the call was pending; missed, those of them that
\* found no subscription; early, the answers published for the user before
\* the call; accepted, a webhook for the user was accepted before the call
IdleWaiter == [pc |-> "idle", user |-> "", sub |-> FALSE, pending |-> <<>>,
               cb |-> "idle", cbdata |-> NoData, result |-> NoResult,
               first |-> <<>>, pubs |-> {}, missed |-> {}, early |-> {},
               accepted |-> FALSE]

\* nc.Publish(subject, data): the server queues data on every active
\* subscription whose subject matches
Deliver(ws, userID, message) ==
    [w \in WaiterIds |->
        LET r == ws[w]
            data == JsonMarshalOutgoing(userID, message)
            hit == r.sub /\ SubjectMatches(ResponseSubject(r.user), ResponseSubject(userID))
            mine == r.pc \in {"subscribing", "waiting"} /\ r.user = userID
        IN [r EXCEPT !.pending = IF hit THEN Append(@, data) ELSE @,
                     !.first = IF hit /\ @ = <<>> THEN <<message>> ELSE @,
                     !.pubs = IF mine THEN @ \cup {message} ELSE @,
                     !.missed = IF mine /\ ~hit THEN @ \cup {message} ELSE @]]

\* SendResponse(nc, userID, message); published is whether nc.Publish
\* succeeds. A failure is logged and nothing else happens
SendResponse(userID, message, published) ==
    waiters' = IF published THEN Deliver(waiters, userID, message) ELSE waiters

\* SendResponse has no result: its caller gets nothing back, whether
\* nc.Publish failed or not
SendResponseReturn(published) == "no_result"

(***************************************************************************)
(* The session store.                                                      *)
(***************************************************************************)
\* the last call of POST /whatsapp/webhook: the publish attempts it made,
\* whether nc.Publish failed, the error it got back and the HTTP status
NoWebhook == [attempts |-> 0, failed |-> FALSE, err |-> "", status |-> 0]

\* the last direct call of UpdateUserSessionTokens and how many were made
NoUpdate == [n |-> 0, user |-> "", tokens |-> NoTokens]

EmptySession == [ChatSession |-> 0, OAuthTokens |-> NoTokens]

IdleTurn == [pc |-> "idle", userID |-> "", text |-> "", session |-> 0, chat |-> 0,
             loaded |-> NoTokens, loadErr |-> "", resp |-> NoCandidates, i |-> 0,
             hasToolCalls |-> FALSE, toolResponses |-> <<>>, resp2 |-> NoCandidates,
             executed |-> <<>>, submissions |-> 0, batches |-> <<>>, sent |-> <<>>,
             appended |-> 0, path |-> "none", published |-> <<>>, sendErr |-> "none"]

Init ==
    /\ userSessions = [u \in Users |-> 0]
    /\ heap = <<>>
    /\ chats = <<>>
    /\ turns = [t \in TurnIds |-> IdleTurn]
    /\ incoming = <<>>
    /\ nInbound = 0
    /\ waiters = [w \in WaiterIds |-> IdleWaiter]
    /\ nPublished = 0
    /\ crashed = FALSE
    /\ lastWebhook = NoWebhook
    /\ lastUpdate = NoUpdate

(***************************************************************************)
(* Ingress: POST /whatsapp/webhook and the incoming.messages subscriber.   *)
(***************************************************************************)
Payload(ne, nc, nm, from, body) ==
    [nEntry |-> ne, nChanges |-> nc, nMessages |-> nm, from |-> from, body |-> body]

ValidPayloads == {Payload(1, 1, 1, u, b) : u \in Users, b \in InboundTexts}
\* payloads the handler drops: no entry, no message, no sender, no text
DroppedPayloads == {Payload(0, 0, 0, "", ""), Payload(1, 1, 0, "", ""),
                    Payload(1, 1, 1, "", "hola"), Payload(1, 1, 1, "u1", "")}

\* json.Marshal of the payload and json.Unmarshal of msg.Data
JsonMarshalPayload(p) == [json |-> TRUE, payload |-> p]
JsonUnmarshalPayload(data) ==
    IF data.json THEN [ok |-> TRUE, payload |-> data.payload]
    ELSE [ok |-> FALSE, payload |-> Payload(0, 0, 0, "", "")]

\* a check that looks at the lists only
StartsTurnAnyMessage(p) == p.nEntry > 0 /\ p.nChanges > 0 /\ p.nMessages > 0

\* lines 62-69 of the handler: the payload starts a turn
StartsTurn(p) ==
    /\ p.nEntry > 0 /\ p.nChanges > 0 /\ p.nMessages > 0
    /\ p.from # "" /\ p.body # ""

\* PublishIncomingMessage: json.Marshal and one nc.Publish, whose error is
\* wrapped and returned; busUp is whether nc.Publish succeeds
PublishIncomingMessageSwallowsError(queue, p, busUp) ==
    [attempts |-> 1, err |-> "",
     queue |-> IF busUp THEN Append(queue, JsonMarshalPayload(p)) ELSE queue]

PublishIncomingMessage(queue, p, busUp) ==
    IF busUp
    THEN [attempts |-> 1, err |-> "", queue |-> Append(queue, JsonMarshalPayload(p))]
    ELSE [attempts |-> 1, err |-> "error publishing incoming webhook to NATS: <err>",
          queue |-> queue]

Quiescent == incoming = <<>> /\ \A t \in TurnIds : turns[t].pc = "idle"

\* the webhook binds the payload and publishes it on incoming.messages
Webhook(p, limit) ==
    /\ ~crashed
    /\ nInbound < limit
    /\ \E busUp \in BOOLEAN :
         LET res == PublishIncomingMessage(incoming, p, busUp) IN
         /\ incoming' = res.queue
         /\ lastWebhook' = [attempts |-> res.attempts, failed |-> ~busUp,
                            err |-> res.err,
                            status |-> IF res.err # "" THEN 500 ELSE 200]
    /\ nInbound' = nInbound + 1
    /\ UNCHANGED <<userSessions, heap, chats, turns, waiters, nPublished, crashed,
                   lastUpdate>>

FreeSlots == {t \in TurnIds : turns[t].pc = "idle"}
LowestFree == CHOOSE t \in FreeSlots : \A o \in FreeSlots : t <= o

\* the subscriber's handler: one message, at most one goroutine started
\* a handler that runs processMessage itself and takes the next message
\* when the turn is over
IncomingHandlerWaits ==
    /\ ~crashed
    /\ incoming # <<>>
    /\ \A t \in TurnIds : turns[t].pc \in {"idle", "done", "panic"}
    /\ LET d == JsonUnmarshalPayload(Head(incoming)) IN
       IF d.ok /\ StartsTurn(d.payload)
       THEN /\ FreeSlots # {}
            /\ turns' = [turns EXCEPT ![LowestFree] =
                            [IdleTurn EXCEPT !.pc = "getSession",
                                             !.userID = d.payload.from,
                                             !.text = d.payload.body]]
       ELSE turns' = turns
    /\ incoming' = Tail(incoming)
    /\ UNCHANGED <<userSessions, heap, chats, nInbound, lastWebhook, lastUpdate, waiters,
                   nPublished, crashed>>

\* the handler given to SubscribeToIncomingMessages
IncomingHandler ==
    /\ ~crashed
    /\ incoming # <<>>
    /\ LET d == JsonUnmarshalPayload(Head(incoming)) IN
       IF d.ok /\ StartsTurn(d.payload)
       THEN /\ FreeSlots # {}
            /\ turns' = [turns EXCEPT ![LowestFree] =
                            [IdleTurn EXCEPT !.pc = "getSession",
                                             !.userID = d.payload.from,
                                             !.text = d.payload.body]]
       ELSE turns' = turns
    /\ incoming' = Tail(incoming)
    /\ UNCHANGED <<userSessions, heap, chats, nInbound, lastWebhook, lastUpdate, waiters, nPublished, crashed>>

(***************************************************************************)
(* The turn driver, processMessage.                                        *)
(***************************************************************************)
Active(t) == turns[t].pc \notin {"idle", "done", "panic"}

\* a turn's end that calls SendResponse twice
FinishPublishesTwice(t, r, message, path) ==
    \E published \in BOOLEAN :
      /\ turns' = [turns EXCEPT ![t] =
                      [r EXCEPT !.pc = "done",
                                !.sent = @ \o <<message, message>>,
                                !.published = IF published THEN Append(@, message) ELSE @,
                                !.sendErr = SendResponseReturn(published),
                                !.path = path]]
      /\ SendResponse(r.userID, message, published)

\* SendResponse and return
Finish(t, r, message, path) ==
    \E published \in BOOLEAN :
      /\ turns' = [turns EXCEPT ![t] =
                      [r EXCEPT !.pc = "done",
                                !.sent = Append(@, message),
                                !.published = IF published THEN Append(@, message) ELSE @,
                                !.sendErr = SendResponseReturn(published),
                                !.path = path]]
      /\ SendResponse(r.userID, message, published)

\* a failed submission that apologises and submits again
ModelFailureRetries(t, r, message, path) ==
    /\ turns' = [turns EXCEPT ![t] =
                    [r EXCEPT !.sent = Append(@, message),
                              !.published = Append(@, message),
                              !.path = path]]
    /\ SendResponse(r.userID, message, TRUE)

\* if err != nil { log; SendResponse(nc, userID, <apology>); return }
ModelFailure(t, r, message, path) == Finish(t, r, message, path)

\* an index out of range or a nil dereference: the goroutine panics and the
\* process dies
Panic(t, r) ==
    /\ turns' = [turns EXCEPT ![t] = [r EXCEPT !.pc = "panic", !.path = "panic"]]
    /\ crashed' = TRUE

\* a lookup-or-insert that never finds the entry
GetOrCreateNoLookup(t) ==
    /\ ~crashed
    /\ turns[t].pc = "getSession"
    /\ heap' = Append(heap, EmptySession)
    /\ userSessions' = [userSessions EXCEPT ![turns[t].userID] = Len(heap) + 1]
    /\ turns' = [turns EXCEPT ![t].session = Len(heap) + 1, ![t].pc = "checkChat"]
    /\ UNCHANGED <<chats, incoming, nInbound, lastWebhook, lastUpdate, waiters, nPublished, crashed>>

\* GetOrCreateUserSession: lookup and insert under sessionsMutex
GetOrCreateUserSession(t) ==
    /\ ~crashed
    /\ turns[t].pc = "getSession"
    /\ LET u == turns[t].userID IN
       IF userSessions[u] # 0
       THEN /\ turns' = [turns EXCEPT ![t].session = userSessions[u],
                                      ![t].pc = "checkChat"]
            /\ UNCHANGED <<heap, userSessions>>
       ELSE /\ heap' = Append(heap, EmptySession)
            /\ userSessions' = [userSessions EXCEPT ![u] = Len(heap) + 1]
            /\ turns' = [turns EXCEPT ![t].session = Len(heap) + 1,
                                      ![t].pc = "checkChat"]
    /\ UNCHANGED <<chats, incoming, nInbound, lastWebhook, lastUpdate, waiters, nPublished, crashed>>

\* if session.ChatSession == nil
CheckChatSession(t) ==
    /\ ~crashed
    /\ turns[t].pc = "checkChat"
    /\ turns' = [turns EXCEPT ![t].pc =
                    IF heap[turns[t].session].ChatSession = 0
                    THEN "startChat" ELSE "checkTokens"]
    /\ UNCHANGED <<userSessions, heap, chats, incoming, nInbound, lastWebhook, lastUpdate, waiters,
                   nPublished, crashed>>

\* session.ChatSession = GetGeminiClient().StartChat()
StartChat(t) ==
    /\ ~crashed
    /\ turns[t].pc = "startChat"
    /\ chats' = Append(chats, <<>>)
    /\ heap' = [heap EXCEPT ![turns[t].session].ChatSession = Len(chats) + 1]
    /\ turns' = [turns EXCEPT ![t].pc = "checkTokens"]
    /\ UNCHANGED <<userSessions, incoming, nInbound, lastWebhook, lastUpdate, waiters, nPublished, crashed>>

\* a credential check that reads token.json in every turn
CheckTokensAlwaysLoads(t) ==
    /\ ~crashed
    /\ turns[t].pc = "checkTokens"
    /\ turns' = [turns EXCEPT ![t].pc = "loadTokens"]
    /\ UNCHANGED <<userSessions, heap, chats, incoming, nInbound, lastWebhook, lastUpdate,
                   waiters, nPublished, crashed>>

\* a credential check that takes the tokens for granted
CheckTokensSkipsLoad(t) ==
    /\ ~crashed
    /\ turns[t].pc = "checkTokens"
    /\ turns' = [turns EXCEPT ![t].pc = "appendHistory"]
    /\ UNCHANGED <<userSessions, heap, chats, incoming, nInbound, lastWebhook, lastUpdate,
                   waiters, nPublished, crashed>>

\* if session.OAuthTokens == nil
CheckTokens(t) ==
    /\ ~crashed
    /\ turns[t].pc = "checkTokens"
    /\ turns' = [turns EXCEPT ![t].pc =
                    IF heap[turns[t].session].OAuthTokens = NoTokens
                    THEN "loadTokens" ELSE "appendHistory"]
    /\ UNCHANGED <<userSessions, heap, chats, incoming, nInbound, lastWebhook, lastUpdate, waiters,
                   nPublished, crashed>>

\* LoadAndPrepareTokens: token.json is read and decoded, or is not
LoadAndPrepareTokens(t) ==
    /\ ~crashed
    /\ turns[t].pc = "loadTokens"
    /\ \/ turns' = [turns EXCEPT ![t].loaded = FileTokens, ![t].pc = "updateTokens"]
       \/ \E e \in LoadErrors :
            turns' = [turns EXCEPT ![t].loadErr = e, ![t].pc = "credFail"]
    /\ UNCHANGED <<userSessions, heap, chats, incoming, nInbound, lastWebhook, lastUpdate, waiters,
                   nPublished, crashed>>

\* a credential failure that publishes and goes on with the turn
CredentialFailureNoReturn(t) ==
    /\ ~crashed
    /\ turns[t].pc = "credFail"
    /\ turns' = [turns EXCEPT ![t].pc = "appendHistory",
                              ![t].sent = Append(@, AuthMsg(turns[t].loadErr)),
                              ![t].path = "cred_fail"]
    /\ UNCHANGED <<userSessions, heap, chats, incoming, nInbound, lastWebhook, lastUpdate, waiters,
                   nPublished, crashed>>

\* the err != nil branch of the credential check: SendResponse and return
CredentialFailure(t) ==
    /\ ~crashed
    /\ turns[t].pc = "credFail"
    /\ Finish(t, turns[t], AuthMsg(turns[t].loadErr), "cred_fail")
    /\ UNCHANGED <<userSessions, heap, chats, incoming, nInbound, lastWebhook, lastUpdate, nPublished, crashed>>

\* an update that stores the tokens in every session
UpdatedHeapAllSessions(us, h, userID, tokens) ==
    [k \in 1..Len(h) |-> [h[k] EXCEPT !.OAuthTokens = tokens]]

\* the sessions after UpdateUserSessionTokens(userID, tokens): the session
\* of userID, if the map has one, points to tokens
UpdatedHeap(us, h, userID, tokens) ==
    IF us[userID] # 0 THEN [h EXCEPT ![us[userID]].OAuthTokens = tokens] ELSE h

\* UpdateUserSessionTokens(userID, loadedPBTokens), under sessionsMutex
UpdateUserSessionTokens(t) ==
    /\ ~crashed
    /\ turns[t].pc = "updateTokens"
    /\ heap' = UpdatedHeap(userSessions, heap, turns[t].userID, turns[t].loaded)
    /\ turns' = [turns EXCEPT ![t].pc = "appendHistory"]
    /\ UNCHANGED <<userSessions, chats, incoming, nInbound, lastWebhook, lastUpdate, waiters, nPublished, crashed>>

UserTurn(what) == [role |-> "user", what |-> what]
ModelTurn == [role |-> "model", what |-> "reply"]

\* geminiChatSession := session.ChatSession; History = append(History, user text)
AppendUserTurn(t) ==
    /\ ~crashed
    /\ turns[t].pc = "appendHistory"
    /\ LET c == heap[turns[t].session].ChatSession IN
       /\ chats' = [chats EXCEPT ![c] = Append(@, UserTurn("text"))]
       /\ turns' = [turns EXCEPT ![t].chat = c, ![t].appended = @ + 1,
                                 ![t].pc = "sendMessage"]
    /\ UNCHANGED <<userSessions, heap, incoming, nInbound, lastWebhook, lastUpdate, waiters, nPublished, crashed>>

\* ChatSession.SendMessage: the parts go into the history as a user turn;
\* a response with a candidate goes in as a model turn
HistoryAfterSend(h, what, failed, resp) ==
    LET h1 == Append(h, UserTurn(what)) IN
    IF ~failed /\ resp.candidates > 0 THEN Append(h1, ModelTurn) ELSE h1

\* resp, err := geminiChatSession.SendMessage(ctx, genai.Text(text))
SendMessage(t, R) ==
    /\ ~crashed
    /\ turns[t].pc = "sendMessage"
    /\ LET r == [turns[t] EXCEPT !.submissions = @ + 1] IN
       \/ /\ chats' = [chats EXCEPT ![r.chat] = HistoryAfterSend(@, "text", TRUE, NoCandidates)]
          /\ ModelFailure(t, r, ModelErrMsg, "model_error")
          /\ UNCHANGED crashed
       \/ \E resp \in R :
            /\ chats' = [chats EXCEPT ![r.chat] = HistoryAfterSend(@, "text", FALSE, resp)]
            /\ IF resp.candidates = 0
               THEN Panic(t, r) /\ UNCHANGED waiters
               ELSE /\ turns' = [turns EXCEPT ![t] =
                                   [r EXCEPT !.resp = resp, !.i = 1,
                                             !.pc = IF resp.parts = <<>>
                                                    THEN "afterLoop" ELSE "parts"]]
                    /\ UNCHANGED <<waiters, crashed>>
    /\ UNCHANGED <<userSessions, heap, incoming, nInbound, lastWebhook, lastUpdate, nPublished>>

\* a text part ends the turn when no tool call came before it
TextPartNeverPublishes(hasToolCalls) == FALSE

TextPartPublishes(hasToolCalls) == ~hasToolCalls

FunctionResponse(name, key, out, err) == [name |-> name, key |-> key, out |-> out, err |-> err]

\* a failed call that leaves no FunctionResponse behind
DropToolError(toolResponses, name, err) == toolResponses

\* toolResponses = append(toolResponses, FunctionResponse{name, {"error": err}})
AppendToolError(toolResponses, name, err) ==
    Append(toolResponses, FunctionResponse(name, "error", NoOut, err))

\* a result put in front of the results collected so far
PrependToolResult(toolResponses, name, out) ==
    <<FunctionResponse(name, "result", out, "")>> \o toolResponses

\* toolResponses = append(toolResponses, FunctionResponse{name, {"result": out}})
AppendToolResult(toolResponses, name, out) ==
    Append(toolResponses, FunctionResponse(name, "result", out, ""))

\* one iteration of the loop over resp.Candidates[0].Content.Parts
ProcessPart(t) ==
    /\ ~crashed
    /\ turns[t].pc = "parts"
    /\ LET r == turns[t]
           part == r.resp.parts[r.i]
           next == IF r.i + 1 > Len(r.resp.parts) THEN "afterLoop" ELSE "parts"
       IN
       IF part.kind = "call"
       THEN \E ext \in OutcomesOf(part.name) :
              LET tokens == heap[r.session].OAuthTokens
                  res == ExecuteToolCall(tokens, part.name, part.args, ext)
              IN /\ turns' = [turns EXCEPT ![t] =
                      [r EXCEPT !.hasToolCalls = TRUE,
                                !.executed = Append(@, [name |-> part.name, i |-> r.i,
                                                        tokens |-> tokens,
                                                        args |-> part.args,
                                                        op |-> res.called, ext |-> ext,
                                                        waited |-> Waited(ext),
                                                        res |-> res]),
                                !.toolResponses =
                                    IF res.ok THEN AppendToolResult(@, part.name, res.out)
                                    ELSE AppendToolError(@, part.name, res.err),
                                !.i = @ + 1, !.pc = next]]
                 /\ UNCHANGED waiters
       ELSE IF TextPartPublishes(r.hasToolCalls)
            THEN Finish(t, r, part.text, "text")
            ELSE /\ turns' = [turns EXCEPT ![t].i = @ + 1, ![t].pc = next]
                 /\ UNCHANGED waiters
    /\ UNCHANGED <<userSessions, heap, chats, incoming, nInbound, lastWebhook, lastUpdate, nPublished, crashed>>

\* a round of tool calls that is never sent back to the model
ResubmitNothing(t, R2) ==
    /\ ~crashed
    /\ turns[t].pc = "afterLoop"
    /\ turns[t].hasToolCalls
    /\ Finish(t, turns[t], FallbackMsg, "fallback")
    /\ UNCHANGED <<userSessions, heap, chats, incoming, nInbound, lastWebhook,
                   lastUpdate, nPublished, crashed>>

\* respAfterTool, err := geminiChatSession.SendMessage(ctx, toolResponses...)
Resubmit(t, R2) ==
    /\ ~crashed
    /\ turns[t].pc = "afterLoop"
    /\ turns[t].hasToolCalls
    /\ LET r == [turns[t] EXCEPT !.submissions = @ + 1,
                                 !.batches = Append(@, turns[t].toolResponses)] IN
       \/ /\ chats' = [chats EXCEPT ![r.chat] =
                          HistoryAfterSend(@, "tool_results", TRUE, NoCandidates)]
          /\ ModelFailure(t, r, ToolSubmitErrMsg, "tool_submit_error")
          /\ UNCHANGED crashed
       \/ \E resp \in R2 :
            /\ chats' = [chats EXCEPT ![r.chat] =
                            HistoryAfterSend(@, "tool_results", FALSE, resp)]
            /\ IF resp.candidates = 0
               THEN Panic(t, r) /\ UNCHANGED waiters
               ELSE /\ turns' = [turns EXCEPT ![t] = [r EXCEPT !.resp2 = resp, !.pc = "final"]]
                    /\ UNCHANGED <<waiters, crashed>>
    /\ UNCHANGED <<userSessions, heap, incoming, nInbound, lastWebhook, lastUpdate, nPublished>>

\* the text that comes last
LastText(parts) ==
    parts[CHOOSE k \in {x \in 1..Len(parts) : parts[x].kind = "text"} :
             \A o \in {x \in 1..Len(parts) : parts[x].kind = "text"} : k >= o].text

TextIndexes(parts) == {k \in 1..Len(parts) : parts[k].kind = "text"}
HasText(parts) == TextIndexes(parts) # {}
FirstText(parts) ==
    parts[CHOOSE k \in TextIndexes(parts) : \A o \in TextIndexes(parts) : k <= o].text

\* the loop over respAfterTool's parts, and the fallback after it
FinalExtraction(t) ==
    /\ ~crashed
    /\ turns[t].pc = "final"
    /\ IF HasText(turns[t].resp2.parts)
       THEN Finish(t, turns[t], FirstText(turns[t].resp2.parts), "final_text")
       ELSE Finish(t, turns[t], FallbackMsg, "fallback")
    /\ UNCHANGED <<userSessions, heap, chats, incoming, nInbound, lastWebhook, lastUpdate, nPublished, crashed>>

\* no tool call and no text part: the fallback message
Fallback(t) ==
    /\ ~crashed
    /\ turns[t].pc = "afterLoop"
    /\ ~turns[t].hasToolCalls
    /\ Finish(t, turns[t], FallbackMsg, "fallback")
    /\ UNCHANGED <<userSessions, heap, chats, incoming, nInbound, lastWebhook, lastUpdate, nPublished, crashed>>

\* the goroutine is gone
Reap(t) ==
    /\ ~crashed
    /\ turns[t].pc = "done"
    /\ turns' = [turns EXCEPT ![t] = IdleTurn]
    /\ UNCHANGED <<userSessions, heap, chats, incoming, nInbound, lastWebhook, lastUpdate, waiters,
                   nPublished, crashed>>

\* the steps of processMessage, with the responses the model draws from
TurnStep(t, R, R2) ==
    \/ GetOrCreateUserSession(t)
    \/ CheckChatSession(t)
    \/ StartChat(t)
    \/ CheckTokens(t)
    \/ LoadAndPrepareTokens(t)
    \/ CredentialFailure(t)
    \/ UpdateUserSessionTokens(t)
    \/ AppendUserTurn(t)
    \/ SendMessage(t, R)
    \/ ProcessPart(t)
    \/ Resubmit(t, R2)
    \/ FinalExtraction(t)
    \/ Fallback(t)

(***************************************************************************)
(* One turn at a time: the next message is sent when the last turn is over. *)
(***************************************************************************)
Next ==
    \/ \E p \in ValidPayloads \cup DroppedPayloads : Quiescent /\ Webhook(p, SeqMsgs)
    \/ IncomingHandler
    \/ \E t \in TurnIds : TurnStep(t, Responses(MaxParts), FinalResponses)
    \/ \E t \in TurnIds : Reap(t)

Spec == Init /\ [][Next]_vars

(***************************************************************************)
(* Concurrent turns: every message starts its goroutine at once.           *)
(***************************************************************************)
NextConc ==
    \/ \E p \in ValidPayloads : Webhook(p, MaxTurns)
    \/ IncomingHandler
    \/ \E t \in TurnIds : TurnStep(t, SmallResponses, SmallResponses)
    \/ \E t \in TurnIds : Reap(t)

SpecConc == Init /\ [][NextConc]_vars

(***************************************************************************)
(* Concurrent turns up to the dispatcher: the model asks for one tool call  *)
(* and the turn is followed until the call has been executed.              *)
(***************************************************************************)
ToolResponses == {Response(<<CallPart("create_contact", ArgsJoe)>>)}

NextCreds ==
    \/ \E p \in ValidPayloads : Webhook(p, MaxTurns)
    \/ IncomingHandler
    \/ \E t \in TurnIds :
          \/ GetOrCreateUserSession(t)
          \/ CheckChatSession(t)
          \/ StartChat(t)
          \/ CheckTokens(t)
          \/ LoadAndPrepareTokens(t)
          \/ CredentialFailure(t)
          \/ UpdateUserSessionTokens(t)
          \/ AppendUserTurn(t)
          \/ SendMessage(t, ToolResponses)
          \/ ProcessPart(t)

SpecCreds == Init /\ [][NextCreds]_vars

(***************************************************************************)
(* Concurrent turns up to the credential check: the callers of the session *)
(* store.                                                                  *)
(***************************************************************************)
NextSession ==
    \/ \E p \in ValidPayloads : Webhook(p, MaxTurns)
    \/ IncomingHandler
    \/ \E t \in TurnIds :
          \/ GetOrCreateUserSession(t)
          \/ CheckChatSession(t)
          \/ StartChat(t)
          \/ CheckTokens(t)
          \/ LoadAndPrepareTokens(t)
          \/ CredentialFailure(t)
          \/ UpdateUserSessionTokens(t)
          \/ Reap(t)

SpecSession == Init /\ [][NextSession]_vars

(***************************************************************************)
(* The session store under direct calls of UpdateUserSessionTokens, for    *)
(* users with and without a session, beside the calls of the turns, which  *)
(* run one at a time.                                                      *)
(***************************************************************************)
MaxUpdates == 2

\* the token sets a caller can pass, nil among them
Credentials == {NoTokens, "refreshed"}

\* an update that puts a new session in the place of the user's
UpdateCallReplacesSession(userID, tokens) ==
    /\ ~crashed
    /\ lastUpdate.n < MaxUpdates
    /\ heap' = Append(heap, [EmptySession EXCEPT !.OAuthTokens = tokens])
    /\ userSessions' = [userSessions EXCEPT ![userID] = Len(heap) + 1]
    /\ lastUpdate' = [n |-> lastUpdate.n + 1, user |-> userID, tokens |-> tokens]
    /\ UNCHANGED <<chats, turns, incoming, nInbound, lastWebhook,
                   waiters, nPublished, crashed>>

\* UpdateUserSessionTokens(userID, tokens), under sessionsMutex
UpdateCall(userID, tokens) ==
    /\ ~crashed
    /\ lastUpdate.n < MaxUpdates
    /\ heap' = UpdatedHeap(userSessions, heap, userID, tokens)
    /\ lastUpdate' = [n |-> lastUpdate.n + 1, user |-> userID, tokens |-> tokens]
    /\ UNCHANGED <<userSessions, chats, turns, incoming, nInbound, lastWebhook,
                   waiters, nPublished, crashed>>

NextStore ==
    \/ \E p \in ValidPayloads : Quiescent /\ Webhook(p, SeqMsgs)
    \/ IncomingHandler
    \/ \E t \in TurnIds : TurnStep(t, SmallResponses, SmallResponses)
    \/ \E t \in TurnIds : Reap(t)
    \/ \E u \in Users, c \in Credentials : UpdateCall(u, c)

SpecStore == Init /\ [][NextStore]_vars

(***************************************************************************)
(* GET /response/:user_id and GetResponseFromNATS.                         *)
(***************************************************************************)
\* a webhook for userID was accepted: its message is queued or has a turn
Accepted(userID) ==
    \/ \E k \in 1..Len(incoming) : incoming[k].payload.from = userID
    \/ \E t \in TurnIds : turns[t].pc # "idle" /\ turns[t].userID = userID

\* the answers the turns of userID have published
Answers(userID) ==
    UNION {{turns[t].published[k] : k \in 1..Len(turns[t].published)} :
             t \in {x \in TurnIds : turns[x].userID = userID}}

\* the handler is entered: msgChan and the subject are made
GetResponseCall(w, userID) ==
    /\ ~crashed
    /\ waiters[w].pc = "idle"
    /\ waiters' = [waiters EXCEPT ![w] =
                      [IdleWaiter EXCEPT !.pc = "subscribing", !.user = userID,
                                         !.accepted = Accepted(userID),
                                         !.early = Answers(userID)]]
    /\ UNCHANGED <<userSessions, heap, chats, turns, incoming, nInbound, lastWebhook, lastUpdate,
                   nPublished, crashed>>

\* nc.Subscribe(subject, callback), which can fail
Subscribe(w) ==
    /\ ~crashed
    /\ waiters[w].pc = "subscribing"
    /\ \/ waiters' = [waiters EXCEPT ![w].sub = TRUE, ![w].pc = "waiting"]
       \/ waiters' = [waiters EXCEPT ![w].pc = "returned",
                         ![w].result = [kind |-> "subscribe_error", text |-> "", to |-> ""]]
    /\ UNCHANGED <<userSessions, heap, chats, turns, incoming, nInbound, lastWebhook, lastUpdate,
                   nPublished, crashed>>

\* the subscription's goroutine takes the next message, decodes it and
\* comes to msgChan <- body
CallbackRun(w) ==
    /\ ~crashed
    /\ waiters[w].sub
    /\ waiters[w].pending # <<>>
    /\ waiters[w].cb = "idle"
    /\ waiters' = [waiters EXCEPT ![w].cb = "sending",
                                  ![w].cbdata = Head(waiters[w].pending),
                                  ![w].pending = Tail(@)]
    /\ UNCHANGED <<userSessions, heap, chats, turns, incoming, nInbound, lastWebhook, lastUpdate,
                   nPublished, crashed>>

\* case responseText := <-msgChan, and the deferred sub.Unsubscribe()
Receive(w) ==
    /\ ~crashed
    /\ waiters[w].pc = "waiting"
    /\ waiters[w].cb = "sending"
    /\ waiters' = [waiters EXCEPT ![w].pc = "returned",
                      ![w].result = [kind |-> "ok",
                                     text |-> CallbackText(waiters[w].cbdata),
                                     to |-> waiters[w].cbdata.to],
                      ![w].cb = "sent", ![w].sub = FALSE, ![w].pending = <<>>]
    /\ UNCHANGED <<userSessions, heap, chats, turns, incoming, nInbound, lastWebhook, lastUpdate,
                   nPublished, crashed>>

\* msg.Sub.Unsubscribe() after the send: the callback returns
CallbackUnsubscribe(w) ==
    /\ ~crashed
    /\ waiters[w].cb = "sent"
    /\ waiters' = [waiters EXCEPT ![w].cb = "exited", ![w].sub = FALSE]
    /\ UNCHANGED <<userSessions, heap, chats, turns, incoming, nInbound, lastWebhook, lastUpdate,
                   nPublished, crashed>>

\* a timeout that returns without the deferred sub.Unsubscribe()
TimeoutKeepsSubscription(w) ==
    /\ ~crashed
    /\ waiters[w].pc = "waiting"
    /\ waiters' = [waiters EXCEPT ![w].pc = "returned",
                      ![w].result = [kind |-> "timeout", text |-> "", to |-> ""]]
    /\ UNCHANGED <<userSessions, heap, chats, turns, incoming, nInbound, lastWebhook,
                   lastUpdate, nPublished, crashed>>

\* case <-time.After(timeout), and the deferred sub.Unsubscribe()
Timeout(w) ==
    /\ ~crashed
    /\ waiters[w].pc = "waiting"
    /\ waiters' = [waiters EXCEPT ![w].pc = "returned",
                      ![w].result = [kind |-> "timeout", text |-> "", to |-> ""],
                      ![w].sub = FALSE, ![w].pending = <<>>]
    /\ UNCHANGED <<userSessions, heap, chats, turns, incoming, nInbound, lastWebhook, lastUpdate,
                   nPublished, crashed>>

WaiterStep(w) ==
    \/ Subscribe(w)
    \/ CallbackRun(w)
    \/ Receive(w)
    \/ CallbackUnsubscribe(w)
    \/ Timeout(w)

\* a turn calls SendResponse and nc.Publish succeeds
PublishOutbound(userID, message) ==
    /\ ~crashed
    /\ nPublished < MaxPublish
    /\ nPublished' = nPublished + 1
    /\ SendResponse(userID, message, TRUE)
    /\ UNCHANGED <<userSessions, heap, chats, turns, incoming, nInbound, lastWebhook, lastUpdate, crashed>>

(***************************************************************************)
(* The model that does not answer.  SendMessage is called with the ctx of  *)
(* main, context.WithCancel(context.Background()): it has no deadline, and *)
(* it is cancelled only when main returns.  A submission that gets no      *)
(* answer leaves the turn inside SendMessage; no step of the program takes *)
(* it out of there.                                                        *)
(***************************************************************************)
\* geminiChatSession.SendMessage(ctx, ...) at step 3 or step 5, unanswered
ModelNeverAnswers(t) ==
    /\ ~crashed
    /\ \/ turns[t].pc = "sendMessage"
       \/ turns[t].pc = "afterLoop" /\ turns[t].hasToolCalls
    /\ LET first == turns[t].pc = "sendMessage" IN
       /\ turns' = [turns EXCEPT ![t] =
                       [@ EXCEPT !.pc = "awaitModel",
                                 !.submissions = @ + 1,
                                 !.batches = IF first THEN @
                                             ELSE Append(@, turns[t].toolResponses)]]
       /\ chats' = [chats EXCEPT ![turns[t].chat] =
                       Append(@, UserTurn(IF first THEN "text" ELSE "tool_results"))]
    /\ UNCHANGED <<userSessions, heap, incoming, nInbound, lastWebhook, lastUpdate,
                   waiters, nPublished, crashed>>

HangTurnStep(t) ==
    \/ TurnStep(t, SmallResponses, SmallResponses)
    \/ ModelNeverAnswers(t)
    \/ Reap(t)

NextHang ==
    \/ \E p \in ValidPayloads : Quiescent /\ Webhook(p, SeqMsgs)
    \/ IncomingHandler
    \/ \E t \in TurnIds : HangTurnStep(t)

\* every goroutine that can take a step is scheduled
SpecHang ==
    /\ Init
    /\ [][NextHang]_vars
    /\ WF_vars(IncomingHandler)
    /\ \A t \in TurnIds : WF_vars(HangTurnStep(t))

(***************************************************************************)
(* Turns of different users side by side, any of which may be left waiting *)
(* for the model: a user sends the next message when the turn of the last  *)
(* one is over.                                                            *)
(***************************************************************************)
NextBlock ==
    \/ \E p \in ValidPayloads : ~Accepted(p.from) /\ Webhook(p, MaxTurns)
    \/ IncomingHandler
    \/ \E t \in TurnIds : HangTurnStep(t)

SpecBlock == Init /\ [][NextBlock]_vars

\* the goroutine of turn t is inside SendMessage or ExecuteToolCall
InCall(t) ==
    \/ turns[t].pc \in {"sendMessage", "awaitModel"}
    \/ turns[t].pc = "afterLoop" /\ turns[t].hasToolCalls
    \/ turns[t].pc = "parts" /\ turns[t].resp.parts[turns[t].i].kind = "call"

(***************************************************************************)
(* The subscriber of incoming.messages with whatever the bus delivers on   *)
(* the subject, from the webhook or from any other publisher.              *)
(***************************************************************************)
IngressMsgs == 2

\* a payload with two messages: from and body are those of Messages[0]
TwoMessages == [nEntry |-> 1, nChanges |-> 1, nMessages |-> 2,
                from |-> "u1", body |-> "dos", from2 |-> "u2", body2 |-> "tres"]

\* bytes that json.Unmarshal rejects
Undecodable == [json |-> FALSE, payload |-> Payload(1, 1, 1, "u1", "hola")]

RawData ==
    {JsonMarshalPayload(p) : p \in ValidPayloads \cup DroppedPayloads \cup {TwoMessages}}
        \cup {Undecodable}

\* a message arrives on the subscription
BusDelivers(data) ==
    /\ ~crashed
    /\ nInbound < IngressMsgs
    /\ incoming' = Append(incoming, data)
    /\ nInbound' = nInbound + 1
    /\ UNCHANGED <<userSessions, heap, chats, turns, lastWebhook, lastUpdate, waiters,
                   nPublished, crashed>>

NextIngress ==
    \/ \E data \in RawData : Quiescent /\ BusDelivers(data)
    \/ IncomingHandler
    \/ \E t \in TurnIds : TurnStep(t, SmallResponses, SmallResponses)
    \/ \E t \in TurnIds : Reap(t)

SpecIngress == Init /\ [][NextIngress]_vars

(***************************************************************************)
(* The correlator alone: calls of the response endpoint and publishes.     *)
(***************************************************************************)
NextBus ==
    \/ \E w \in WaiterIds, u \in PathParams : GetResponseCall(w, u)
    \/ \E w \in WaiterIds : WaiterStep(w)
    \/ \E u \in Users, m \in Texts : PublishOutbound(u, m)

SpecBus == Init /\ [][NextBus]_vars

(***************************************************************************)
(* End to end: one webhook, its turn, and a call of the response endpoint. *)
(***************************************************************************)
E2EMsgs == 1

NextE2E ==
    \/ \E p \in ValidPayloads : Webhook(p, E2EMsgs)
    \/ IncomingHandler
    \/ \E t \in TurnIds : TurnStep(t, SmallResponses, SmallResponses)
    \/ \E w \in WaiterIds, u \in Users : GetResponseCall(w, u)
    \/ \E w \in WaiterIds : WaiterStep(w)

SpecE2E == Init /\ [][NextE2E]_vars

(***************************************************************************)
(* The dispatcher under every tool name and argument mapping: one message, *)
(* answered with one call part.                                            *)
(***************************************************************************)
DispatchMsgs == 1

\* the five tools and two names that are none of them
ToolNames == KnownTools \cup {"drop_database", ""}

\* arguments of the wrong type for every tool, and well-typed ones
ArgsWrongTypes == [calendar_id |-> Num(1), max_results |-> Str("five"),
                   summary |-> Num(2), start_time |-> Num(3), to |-> Num(4),
                   page_size |-> Str("ten"), display_name |-> Num(5)]
ArgsTyped == [calendar_id |-> Str("work"), max_results |-> Num(5),
              summary |-> Str("cita"), start_time |-> Str("2025-01-01T10:00:00Z"),
              end_time |-> Str("2025-01-01T11:00:00Z"), time_zone |-> Str("UTC"),
              to |-> Str("joe.doe@example.com"), subject |-> Str("hola"),
              body |-> Str("texto"), page_size |-> Num(5)]

\* numbers with a fraction, and numbers beyond the int32 range
ArgsFraction == [calendar_id |-> Str("work"), max_results |-> NumFrac(2, 5),
                 page_size |-> NumFrac(7, 9)]
ArgsOver == [max_results |-> NumOver(0), page_size |-> NumOver(852516352)]

DispatchArgs == {NoArgs, ArgsJoe, ArgsWrongTypes, ArgsTyped, ArgsFraction, ArgsOver}

DispatchResponses ==
    {Response(<<>>),
     Response(<<CallPart("send_email", ArgsTyped), CallPart("create_contact", ArgsJoe)>>)}
        \cup {Response(<<CallPart(n, a)>>) : n \in ToolNames, a \in DispatchArgs}

NextDispatch ==
    \/ \E p \in ValidPayloads : Quiescent /\ Webhook(p, DispatchMsgs)
    \/ IncomingHandler
    \/ \E t \in TurnIds : TurnStep(t, DispatchResponses, SmallResponses)
    \/ \E t \in TurnIds : Reap(t)

SpecDispatch == Init /\ [][NextDispatch]_vars

(***************************************************************************)
(* Properties.                                                             *)
(***************************************************************************)
CallIndexes(parts) == {k \in 1..Len(parts) : parts[k].kind = "call"}

\* every call part of the first response was dispatched exactly once
ExecutedOnce(r) ==
    \A k \in CallIndexes(r.resp.parts) :
        Cardinality({j \in 1..Len(r.executed) : r.executed[j].i = k}) = 1

\* the dispatched calls that came back as a failure
FailedCalls(r) == {j \in 1..Len(r.executed) : r.executed[j].ext # "ok"}

\* C1: two turns of the same user never run processMessage at the same
\* time.
C1_TurnsSerialized ==
    \A t1, t2 \in TurnIds :
        (t1 # t2 /\ Active(t1) /\ Active(t2)) => turns[t1].userID # turns[t2].userID

\* C2: when the first response holds a call part, in any mix with text
\* parts, the turn has dispatched every call part exactly once when it ends.
C2_EveryInvocationExecuted ==
    \A t \in TurnIds :
        (turns[t].pc = "done" /\ CallIndexes(turns[t].resp.parts) # {})
            => ExecutedOnce(turns[t])

C4_AnswerReachesLaterCall ==
    \A w \in WaiterIds :
        LET r == waiters[w] IN
        (/\ r.pc = "returned"
         /\ r.accepted
         /\ r.result.kind # "subscribe_error"
         /\ r.early \cup r.missed # {})
            => r.result.kind = "ok" /\ r.result.text \in r.early \cup r.missed

\* C5: a call of GetResponseFromNATS for U never returns a text that
\* SendResponse published for another user.
C5_NoForeignAnswer ==
    \A w \in WaiterIds :
        waiters[w].result.kind = "ok" => waiters[w].result.to = waiters[w].user

\* C6: when exactly one call of the round failed, every call part was
\* dispatched, and the one batch sent back holds one FunctionResponse per
\* call: the error for the failed one, a result for each of the others.
C6_OneFailureFullBatch ==
    \A t \in TurnIds :
        LET r == turns[t]
            n == Cardinality(CallIndexes(r.resp.parts))
        IN (r.pc \in {"final", "done", "panic"} /\ Cardinality(FailedCalls(r)) = 1)
            => /\ ExecutedOnce(r)
               /\ Len(r.executed) = n
               /\ Len(r.batches) = 1
               /\ Len(r.batches[1]) = n
               /\ \A j \in 1..n :
                    /\ r.batches[1][j].name = r.executed[j].name
                    /\ r.batches[1][j].key =
                         IF j \in FailedCalls(r) THEN "error" ELSE "result"

\* C6: a finished turn with two calls, the second of which failed
C6_Witness ==
    \E t \in TurnIds :
        /\ turns[t].pc = "done"
        /\ Len(turns[t].executed) = 2
        /\ FailedCalls(turns[t]) = {2}
        /\ Len(turns[t].batches) = 1
        /\ turns[t].batches[1][1].key = "result"
        /\ turns[t].batches[1][2].key = "error"

\* C7: a turn that is over, whatever the model answered, has published a
\* message, and the fallback path has published the fallback message.
C7_AlwaysPublishes ==
    \A t \in TurnIds :
        turns[t].pc \in {"done", "panic"} =>
            /\ turns[t].sent # <<>>
            /\ turns[t].path = "fallback" => turns[t].sent = <<FallbackMsg>>

\* C8: a turn whose session held no tokens and whose token load failed
\* publishes the one authorization message, made of the fixed text and the
\* load error, and returns: no tool was dispatched, nothing was sent to the
\* model, nothing was appended to the history, and the session holds no
\* tokens.
C8_CredentialFailureEndsTurn ==
    \A t \in TurnIds :
        LET r == turns[t] IN
        /\ r.pc = "credFail" =>
              /\ r.sent = <<>> /\ r.executed = <<>> /\ r.submissions = 0
              /\ r.appended = 0 /\ heap[r.session].OAuthTokens = NoTokens
        /\ r.path = "cred_fail" =>
              /\ r.pc = "done"
              /\ r.loadErr \in LoadErrors
              /\ r.sent = <<AuthMsg(r.loadErr)>>
              /\ r.executed = <<>>
              /\ r.submissions = 0
              /\ r.batches = <<>>
              /\ r.appended = 0
              /\ heap[r.session].OAuthTokens = NoTokens

\* C8: a turn ended by the credential failure
C8_Witness ==
    \E t \in TurnIds :
        /\ turns[t].pc = "done"
        /\ turns[t].path = "cred_fail"
        /\ turns[t].loadErr \in LoadErrors
        /\ turns[t].sent = <<AuthMsg(turns[t].loadErr)>>
        /\ heap[turns[t].session].OAuthTokens = NoTokens

\* the users with an entry in userSessions
StoredUsers == {u \in Users : userSessions[u] # 0}

\* C9: concurrent callers of GetOrCreateUserSession for one user all hold
\* the session stored for that user, and the store holds one session per
\* user it has seen: no second session was made.
C9_OneSessionPerUser ==
    /\ \A t \in TurnIds :
          turns[t].session # 0 => turns[t].session = userSessions[turns[t].userID]
    /\ \A t1, t2 \in TurnIds :
          (turns[t1].session # 0 /\ turns[t2].session # 0
             /\ turns[t1].userID = turns[t2].userID)
            => turns[t1].session = turns[t2].session
    /\ Len(heap) = Cardinality(StoredUsers)
    /\ \A u1, u2 \in StoredUsers : userSessions[u1] = userSessions[u2] => u1 = u2

\* C9: two live turns of one user have both got their session
C9_Witness ==
    \E t1, t2 \in TurnIds :
        /\ t1 # t2
        /\ turns[t1].userID = turns[t2].userID
        /\ turns[t1].session # 0
        /\ turns[t1].session = turns[t2].session
        /\ Len(heap) = 1

AllText(parts) == parts # <<>> /\ \A k \in 1..Len(parts) : parts[k].kind = "text"

\* C10: a turn whose first response holds text parts only dispatches no
\* tool, sends nothing more to the model, and ends at the first part, whose
\* text is the one message it publishes.
C10_TextOnlyPublishedVerbatim ==
    \A t \in TurnIds :
        LET r == turns[t] IN
        (r.resp.candidates = 1 /\ AllText(r.resp.parts)) =>
            /\ r.executed = <<>>
            /\ r.submissions = 1
            /\ r.batches = <<>>
            /\ \/ r.pc = "parts" /\ r.i = 1 /\ r.sent = <<>>
               \/ r.pc = "done" /\ r.sent = <<r.resp.parts[1].text>>

\* C10: the response was two different texts and the first was published
C10_Witness ==
    \E t \in TurnIds :
        /\ turns[t].pc = "done"
        /\ turns[t].resp = Response(<<TextPart("t2"), TextPart("t1")>>)
        /\ turns[t].sent = <<"t2">>

AllCalls(parts) == parts # <<>> /\ \A k \in 1..Len(parts) : parts[k].kind = "call"

\* C11: a turn whose first response holds call parts only sends its tool
\* results to the model exactly once: not before the loop over the parts is
\* over, once when the turn is past it, and never again whatever the second
\* response holds.
C11_OneResubmission ==
    \A t \in TurnIds :
        LET r == turns[t] IN
        (r.resp.candidates = 1 /\ AllCalls(r.resp.parts)) =>
            /\ r.pc \in {"parts", "afterLoop", "final", "done", "panic"}
            /\ r.pc \in {"parts", "afterLoop"} =>
                  r.batches = <<>> /\ r.submissions = 1
            /\ r.pc \in {"final", "done", "panic"} =>
                  /\ Len(r.batches) = 1
                  /\ r.submissions = 2
                  /\ Len(r.batches[1]) = Len(r.resp.parts)

\* C11: two calls were answered with a response that asks for a new call,
\* and the turn ended with one batch sent
C11_Witness ==
    \E t \in TurnIds :
        /\ turns[t].pc = "done"
        /\ Len(turns[t].resp.parts) = 2
        /\ AllCalls(turns[t].resp.parts)
        /\ turns[t].resp2 = Response(<<CallPart("create_contact", ArgsJoe), TextPart("t2")>>)
        /\ Len(turns[t].batches) = 1
        /\ turns[t].submissions = 2

\* C12: a call of GetResponseFromNATS that has returned, with a message, by
\* timeout or with a subscribe error, has no active subscription and no
\* message queued on one: only a call that is waiting is subscribed.
C12_NoSubscriptionAfterReturn ==
    \A w \in WaiterIds :
        /\ waiters[w].sub => waiters[w].pc = "waiting"
        /\ waiters[w].pc # "waiting" => waiters[w].pending = <<>>

\* C12: a call timed out with nothing published for it, and is unsubscribed
C12_Witness ==
    \E w \in WaiterIds :
        /\ waiters[w].pc = "returned"
        /\ waiters[w].result.kind = "timeout"
        /\ waiters[w].first = <<>>
        /\ waiters[w].pubs = {}
        /\ ~waiters[w].sub

\* C13: no failure of a turn or of a call ends the process.
C13_NoFailureIsFatal == ~crashed

\* the positions in executed of the calls of a name that is no tool, of the
\* calls of a tool, and of the calls of a tool that failed
UnknownCalls(r) == {j \in 1..Len(r.executed) : r.executed[j].name \notin KnownTools}
KnownCalls(r) == {j \in 1..Len(r.executed) : r.executed[j].name \in KnownTools}
FailedKnownCalls(r) ==
    {j \in KnownCalls(r) : r.executed[j].ext \in {"rpc_error", "status_error"}}

\* C14: a call whose name is none of the five tools comes back from
\* ExecuteToolCall as an error that names the tool, with no RPC made and no
\* panic, and the turn goes on: the error is a FunctionResponse of the batch
\* and of the one submission that follows.
C14_UnknownToolIsFailure ==
    \A t \in TurnIds :
        LET r == turns[t] IN
        \A j \in UnknownCalls(r) :
            LET e == r.executed[j] IN
            /\ e.res.rpcs = <<>>
            /\ e.op = "none"
            /\ ~e.res.ok
            /\ e.res.out = NoOut
            /\ e.res.err = "unknown tool: " \o e.name
            /\ r.toolResponses[j] = FunctionResponse(e.name, "error", NoOut, e.res.err)
            /\ r.pc \in {"parts", "afterLoop", "final", "done", "panic"}
            /\ r.pc \in {"final", "done", "panic"} =>
                  Len(r.batches) = 1 /\ r.batches[1][j] = r.toolResponses[j]

\* C14: a turn ended after it sent the error of an unknown tool to the model
C14_Witness ==
    \E t \in TurnIds :
        /\ turns[t].pc = "done"
        /\ Len(turns[t].executed) = 1
        /\ turns[t].executed[1].name = "drop_database"
        /\ turns[t].batches =
              <<<<FunctionResponse("drop_database", "error", NoOut,
                                   "unknown tool: drop_database")>>>>

\* C15: for a known tool, an RPC error and a reply with status ERROR both
\* make ExecuteToolCall return an error and no payload, and processMessage
\* makes the same FunctionResponse of both: the name of the call and the
\* error string under "error".
C15_TransportAndStatusAlike ==
    \A t \in TurnIds :
        LET r == turns[t] IN
        \A j \in FailedKnownCalls(r) :
            LET e == r.executed[j] IN
            /\ ~e.res.ok
            /\ e.res.out = NoOut
            /\ e.res.err # ""
            /\ r.toolResponses[j] = FunctionResponse(e.name, "error", NoOut, e.res.err)

\* C15: send_email came back with status ERROR and became an error response
C15_Witness ==
    \E t \in TurnIds :
        /\ Len(turns[t].executed) = 1
        /\ turns[t].executed[1].name = "send_email"
        /\ turns[t].executed[1].ext = "status_error"
        /\ turns[t].toolResponses[1].key = "error"
        /\ turns[t].toolResponses[1].err = "send_email MCP error: <message>"

\* C16: for a known tool and any arguments, ExecuteToolCall sends one
\* request, to the operation of that tool, with the tokens it was given,
\* whether the arguments are there and well typed or not and whether the
\* RPC fails or not.
C16_OneRpcPerCall ==
    \A t \in TurnIds :
        LET r == turns[t] IN
        \A j \in KnownCalls(r) :
            LET e == r.executed[j] IN
            /\ Len(e.res.rpcs) = 1
            /\ e.res.rpcs[1].op = OpOf(e.name)
            /\ e.res.rpcs[1].op # "none"
            /\ e.tokens # NoTokens
            /\ e.res.rpcs[1].common = e.tokens

\* C16: create_calendar_event was called with arguments of the wrong types,
\* the RPC failed, and one request was sent
C16_Witness ==
    \E t \in TurnIds :
        /\ Len(turns[t].executed) = 1
        /\ turns[t].executed[1].name = "create_calendar_event"
        /\ turns[t].executed[1].args = ArgsWrongTypes
        /\ turns[t].executed[1].ext = "rpc_error"
        /\ Len(turns[t].executed[1].res.rpcs) = 1
        /\ turns[t].executed[1].res.rpcs[1].op = "CalendarService.CreateEvent"
        /\ turns[t].executed[1].res.rpcs[1].common = FileTokens

\* C17: a turn whose nc.Publish failed inside SendResponse got an error
\* back from SendResponse.
C17_PublishFailureReported ==
    \A t \in TurnIds :
        Len(turns[t].published) < Len(turns[t].sent) => turns[t].sendErr = "error"

\* C18: a webhook call whose nc.Publish failed made one publish attempt,
\* got the error back from PublishIncomingMessage and answered 500 and not
\* 200; nothing was queued and no turn was started or changed.
C18_EnqueueFailureReported ==
    [][(nInbound' # nInbound /\ lastWebhook'.failed) =>
          /\ lastWebhook'.attempts = 1
          /\ lastWebhook'.err # ""
          /\ lastWebhook'.status = 500
          /\ incoming' = incoming
          /\ turns' = turns]_vars

\* C18: the first webhook call failed: it answered 500, the queue is empty
\* and no turn runs
C18_Witness ==
    /\ nInbound = 1
    /\ lastWebhook.failed
    /\ lastWebhook.status = 500
    /\ incoming = <<>>
    /\ \A t \in TurnIds : turns[t].pc = "idle"

\* C19: a call of GetResponseFromNATS for a user never returns the timeout
\* when a message published for the user reached its subscription.
C19_NoTimeoutAfterDelivery ==
    \A w \in WaiterIds :
        (/\ waiters[w].pc = "returned"
         /\ waiters[w].user \in Users
         /\ waiters[w].result.kind = "timeout")
            => waiters[w].first = <<>>

\* C20: a call of UpdateUserSessionTokens never changes the map, the chat
\* histories or the number of sessions; for a user without a session it
\* changes no session, and for a user with one it makes that session hold
\* the tokens passed and changes neither its ChatSession nor another
\* session.
C20_UpdateFrame ==
    [][lastUpdate' # lastUpdate =>
          LET u == lastUpdate'.user
              c == lastUpdate'.tokens
              k == userSessions[u]
          IN /\ userSessions' = userSessions
             /\ chats' = chats
             /\ Len(heap') = Len(heap)
             /\ IF k = 0
                THEN heap' = heap
                ELSE /\ heap'[k].OAuthTokens = c
                     /\ heap'[k].ChatSession = heap[k].ChatSession
                     /\ \A o \in 1..Len(heap) : o # k => heap'[o] = heap[o]]_vars

\* C20: the last call was for u2, who has no session, while u1 has one that
\* holds its tokens and its chat
C20_Witness ==
    /\ lastUpdate.n > 0
    /\ lastUpdate.user = "u2"
    /\ lastUpdate.tokens = "refreshed"
    /\ userSessions["u2"] = 0
    /\ userSessions["u1"] # 0
    /\ heap[userSessions["u1"]] = [ChatSession |-> 1, OAuthTokens |-> FileTokens]

\* no two users share a session and the store holds no other session
OneSessionEach ==
    /\ Len(heap) = Cardinality(StoredUsers)
    /\ \A u \in StoredUsers : userSessions[u] \in 1..Len(heap)
    /\ \A u1, u2 \in StoredUsers : userSessions[u1] = userSessions[u2] => u1 = u2

\* C21: whatever step is taken, by a turn, by GetOrCreateUserSession or by
\* a call of UpdateUserSessionTokens, a user who has a session keeps that
\* very session, and the store holds one session for each user it has seen
\* and no other.
C21_SessionNeverReplaced ==
    [][/\ \A u \in Users : userSessions[u] # 0 => userSessions'[u] = userSessions[u]
       /\ OneSessionEach
       /\ OneSessionEach']_vars

\* C21: u1 has had a turn and a direct update of its tokens, and a later
\* turn of u1 got the one session there is
C21_Witness ==
    \E t \in TurnIds :
        /\ turns[t].userID = "u1"
        /\ turns[t].pc = "checkChat"
        /\ turns[t].session = userSessions["u1"]
        /\ Len(heap) = 1
        /\ Len(chats) = 1
        /\ chats[1] # <<>>
        /\ lastUpdate.user = "u1"

\* C22: a turn whose first submission failed has submitted once, has
\* executed no tool, has sent ModelErrMsg and nothing else, and is over; a
\* turn whose resubmission failed has submitted twice, one batch, has sent
\* ToolSubmitErrMsg and nothing else, is over, and has executed each tool
\* call of the response once and none again.
C22_SubmissionFailureEndsTurn ==
    /\ \A t \in TurnIds :
        LET r == turns[t] IN
        /\ r.path = "model_error" =>
              /\ r.pc = "done"
              /\ r.sent = <<ModelErrMsg>>
              /\ r.submissions = 1
              /\ r.executed = <<>>
              /\ r.batches = <<>>
        /\ r.path = "tool_submit_error" =>
              /\ r.pc = "done"
              /\ r.sent = <<ToolSubmitErrMsg>>
              /\ r.submissions = 2
              /\ Len(r.batches) = 1
              /\ Len(r.executed) = Cardinality(CallIndexes(r.resp.parts))
              /\ \A j, k \in 1..Len(r.executed) :
                     r.executed[j].i = r.executed[k].i => j = k
    /\ \A t \in TurnIds :
          (turns[t].sent # <<>> /\ turns[t].sent[1] \in {ModelErrMsg, ToolSubmitErrMsg})
              => turns[t].path \in {"model_error", "tool_submit_error"}

\* C22: the resubmission of a round of two executed tool calls failed
C22_Witness ==
    \E t \in TurnIds :
        /\ turns[t].path = "tool_submit_error"
        /\ Len(turns[t].executed) = 2
        /\ turns[t].pc = "done"

\* C23: no more dialogue handles are ever started than there are Sessions:
\* no Session has a handle started for it a second time, so the handle it
\* has is never replaced.
C23_HandleStartedOnce == Len(chats) <= Len(heap)

\* C24: once GetResponseFromNATS has returned, its callback is not left at
\* msgChan <- body: the only receiver of msgChan is the select that has
\* returned, so a callback found there stays there for ever.
C24_NoCallbackLeftSending ==
    \A w \in WaiterIds : waiters[w].pc = "returned" => waiters[w].cb # "sending"

\* part.(genai.FunctionCall): the part is a tool call
IsCall(part) == part.kind = "call"

\* the tool calls of a response, in the order of its parts
CallsOf(parts) == SelectSeq(parts, IsCall)

\* C25: a batch is submitted only when every tool call of the response has
\* been executed, and it holds one FunctionResponse per call, in the order of
\* the calls, the j-th named after the j-th call and holding either the
\* "result" of a successful execution or the "error" of a failed one.
C25_BatchMatchesRound ==
    \A t \in TurnIds :
        LET r == turns[t]
            calls == CallsOf(r.resp.parts)
        IN r.batches # <<>> =>
              /\ Len(r.executed) = Len(calls)
              /\ Len(r.batches[1]) = Len(calls)
              /\ \A j \in 1..Len(calls) :
                    LET b == r.batches[1][j]
                        e == r.executed[j]
                    IN /\ b.name = calls[j].name
                       /\ e.name = calls[j].name
                       /\ e.args = calls[j].args
                       /\ b.key \in {"result", "error"}
                       /\ b.key = "result" =>
                             e.res.ok /\ b.out = e.res.out /\ b.out # NoOut /\ b.err = ""
                       /\ b.key = "error" =>
                             ~e.res.ok /\ b.err = e.res.err /\ b.err # "" /\ b.out = NoOut

\* C25: a batch of two results was submitted, the failure of the unknown
\* tool first and the success of create_contact second
C25_Witness ==
    \E t \in TurnIds :
        /\ Len(turns[t].batches) = 1
        /\ Len(turns[t].batches[1]) = 2
        /\ turns[t].batches[1][1].name = "drop_database"
        /\ turns[t].batches[1][1].key = "error"
        /\ turns[t].batches[1][2].name = "create_contact"
        /\ turns[t].batches[1][2].key = "result"

\* C26: a turn that is waiting for the model's answer to a submission comes
\* out of the call and ends with a message sent, whether or not the model
\* ever answers.
C26_SubmissionReturns ==
    \A t \in TurnIds :
        (turns[t].pc = "awaitModel") ~> (turns[t].pc = "done" /\ turns[t].sent # <<>>)

\* C27: a turn has called SendResponse at most once; it has called it once
\* exactly when it is over, on one of the paths credential failure, model
\* failure, direct text, answer after the tools, fallback; and a turn that
\* has called it takes no further step.
C27_OnePublishPerTurn ==
    \A t \in TurnIds :
        /\ Len(turns[t].sent) <= 1
        /\ turns[t].pc = "done" <=> Len(turns[t].sent) = 1
        /\ turns[t].pc = "done" =>
              turns[t].path \in {"cred_fail", "model_error", "text",
                                 "tool_submit_error", "final_text", "fallback"}
        /\ Len(turns[t].published) <= Len(turns[t].sent)

\* C27: a response with no part at all ended in the one fallback message
C27_Witness ==
    \E t \in TurnIds :
        /\ turns[t].pc = "done"
        /\ turns[t].path = "fallback"
        /\ ~turns[t].hasToolCalls
        /\ turns[t].sent = <<FallbackMsg>>

\* C28: every execution of a tool call, also of turns of one user that run
\* side by side, was given tokens that are not nil and are the tokens of the
\* session of the turn's user, and every request sent to the external
\* service carries them.
C28_DispatchHasCredentials ==
    \A t \in TurnIds :
        \A j \in 1..Len(turns[t].executed) :
            LET e == turns[t].executed[j] IN
            /\ e.tokens # NoTokens
            /\ userSessions[turns[t].userID] = turns[t].session
            /\ e.tokens = heap[turns[t].session].OAuthTokens
            /\ \A k \in 1..Len(e.res.rpcs) : e.res.rpcs[k].common = e.tokens

\* C28: two turns of u1 are under way at once and both have executed a tool
\* call
C28_Witness ==
    \E t1, t2 \in TurnIds :
        /\ t1 # t2
        /\ turns[t1].userID = "u1" /\ turns[t2].userID = "u1"
        /\ turns[t1].pc = "afterLoop" /\ turns[t2].pc = "afterLoop"
        /\ Len(turns[t1].executed) = 1 /\ Len(turns[t2].executed) = 1

C31_BlockedTurnDelaysNoOne ==
    ~crashed =>
      \A t \in TurnIds :
          InCall(t) =>
            /\ incoming # <<>> => ENABLED IncomingHandler
            /\ \A v \in TurnIds :
                  (/\ v # t
                   /\ turns[v].userID # turns[t].userID
                   /\ Active(v)
                   /\ turns[v].pc # "awaitModel") => ENABLED HangTurnStep(v)

\* C31: the turn of u1 waits for a model that never answers, and the turn
\* of u2, started after that, has sent its answer
C31_Witness ==
    \E t, v \in TurnIds :
        /\ turns[t].pc = "awaitModel" /\ turns[t].userID = "u1"
        /\ turns[v].pc = "done" /\ turns[v].userID = "u2"
        /\ turns[v].path = "text"
        /\ t < v

\* C32: when the first message there is has been answered by a text of the
\* model, the dialogue of its Session holds the message once, as a user
\* turn, and the model turn after it: one user turn and one model turn per
\* successful text-only turn.
C32_TextAddedOnce ==
    \A t \in TurnIds :
        (nInbound = 1 /\ turns[t].pc = "done" /\ turns[t].path = "text")
            => chats[turns[t].chat] = <<UserTurn("text"), ModelTurn>>

\* the request fields of the j-th execution of turn r
FieldsOf(r, j) == r.executed[j].res.req.fields

\* C33 (amended): the request of list_calendar_events has calendar_id
\* "primary" when the argument is absent or not a string and max_results 10
\* when it is absent or not a number; otherwise it has the supplied string
\* and the supplied number converted to int32: the number itself when it
\* is whole and in range, its integer part when it has a fraction, and no
\* determined value when it is beyond the int32 range.  The same holds for
\* page_size of list_contacts.  None of these cases fails by itself: when
\* the RPC succeeds the execution succeeds.
C33_DefaultsAndConversion ==
    \A t \in TurnIds :
        LET r == turns[t] IN
        \A j \in 1..Len(r.executed) :
            LET e == r.executed[j] IN
            /\ e.name = "list_calendar_events" =>
                  /\ e.args \in {NoArgs, ArgsJoe} =>
                        FieldsOf(r, j) = [calendar_id |-> Str("primary"),
                                          max_results |-> Int32Val(10)]
                  /\ e.args = ArgsWrongTypes =>
                        FieldsOf(r, j) = [calendar_id |-> Str("primary"),
                                          max_results |-> Int32Val(10)]
                  /\ e.args = ArgsTyped =>
                        FieldsOf(r, j) = [calendar_id |-> Str("work"),
                                          max_results |-> Int32Val(5)]
                  /\ e.args = ArgsFraction =>
                        FieldsOf(r, j) = [calendar_id |-> Str("work"),
                                          max_results |-> Int32Val(2)]
                  /\ e.args = ArgsOver =>
                        /\ FieldsOf(r, j).calendar_id = Str("primary")
                        /\ ~FieldsOf(r, j).max_results.defined
            /\ e.name = "list_contacts" =>
                  /\ e.args \in {NoArgs, ArgsJoe, ArgsWrongTypes} =>
                        FieldsOf(r, j) = [page_size |-> Int32Val(10)]
                  /\ e.args = ArgsTyped => FieldsOf(r, j) = [page_size |-> Int32Val(5)]
                  /\ e.args = ArgsFraction => FieldsOf(r, j) = [page_size |-> Int32Val(7)]
                  /\ e.args = ArgsOver => ~FieldsOf(r, j).page_size.defined
            /\ (e.name \in {"list_calendar_events", "list_contacts"} /\ e.ext = "ok") =>
                  e.res.ok /\ Len(e.res.rpcs) = 1

\* C33: list_calendar_events was executed with max_results 2.5 and the RPC
\* succeeded
C33_Witness ==
    \E t \in TurnIds :
        /\ Len(turns[t].executed) = 1
        /\ turns[t].executed[1].name = "list_calendar_events"
        /\ turns[t].executed[1].args = ArgsFraction
        /\ turns[t].executed[1].ext = "ok"
        /\ turns[t].executed[1].res.ok

\* C33 (as stated): whenever max_results or page_size is supplied as a
\* number, the request carries the supplied value.
C33_SuppliedValueSent ==
    \A t \in TurnIds :
        \A j \in 1..Len(turns[t].executed) :
            LET e == turns[t].executed[j]
                sent(k) == /\ FieldsOf(turns[t], j)[k].defined
                           /\ FieldsOf(turns[t], j)[k].n = e.args[k].n
                           /\ e.args[k].tenths = 0
                           /\ ~e.args[k].over
            IN /\ (e.name = "list_calendar_events" /\ HasNum(e.args, "max_results"))
                     => sent("max_results")
               /\ (e.name = "list_contacts" /\ HasNum(e.args, "page_size"))
                     => sent("page_size")

C35_SourceConsultedOnlyWhenEmpty ==
    [][/\ \A t \in TurnIds :
            /\ (turns'[t].pc = "loadTokens" /\ turns[t].pc # "loadTokens") =>
                  /\ turns[t].pc = "checkTokens"
                  /\ heap[turns[t].session].OAuthTokens = NoTokens
            /\ (/\ turns[t].pc = "checkTokens"
                /\ heap[turns[t].session].OAuthTokens # NoTokens
                /\ turns'[t] # turns[t]) =>
                  /\ turns'[t].pc = "appendHistory"
                  /\ turns'[t].loaded = NoTokens
                  /\ turns'[t].loadErr = ""
            /\ Len(turns'[t].executed) > Len(turns[t].executed) =>
                  /\ turns'[t].executed[Len(turns'[t].executed)].tokens
                        = heap[turns[t].session].OAuthTokens
                  /\ heap[turns[t].session].OAuthTokens # NoTokens
       /\ \A k \in 1..Len(heap) :
            heap[k].OAuthTokens # NoTokens => heap'[k].OAuthTokens = heap[k].OAuthTokens]_vars

\* C35: the second turn of u1 executed a tool call with the tokens the first
\* turn had loaded, without loading any itself
C35_Witness ==
    \E t \in TurnIds :
        /\ nInbound = 2
        /\ turns[t].userID = "u1"
        /\ turns[t].chat \in 1..Len(chats)
        /\ Len(chats[turns[t].chat]) > 2
        /\ turns[t].loaded = NoTokens
        /\ turns[t].loadErr = ""
        /\ Len(turns[t].executed) = 1
        /\ turns[t].executed[1].tokens = FileTokens
        /\ heap[turns[t].session].OAuthTokens = FileTokens

\* C36: when the handler takes a message, it starts one turn, for the
\* sender and the text of the first message of the payload, if the message
\* decodes to a payload with an entry, a change and a message whose first
\* message has a sender and a text; for every other message it starts no
\* turn, changes none and nothing is sent or delivered.
C36_TurnOnlyForValidPayload ==
    [][(incoming # <<>> /\ incoming' = Tail(incoming)) =>
          LET data == Head(incoming)
              p == data.payload
              valid == /\ data.json
                       /\ p.nEntry >= 1 /\ p.nChanges >= 1 /\ p.nMessages >= 1
                       /\ p.from # "" /\ p.body # ""
          IN /\ valid =>
                  \E t \in TurnIds :
                      /\ turns[t].pc = "idle"
                      /\ turns'[t] = [IdleTurn EXCEPT !.pc = "getSession",
                                                      !.userID = p.from,
                                                      !.text = p.body]
                      /\ \A o \in TurnIds \ {t} : turns'[o] = turns[o]
             /\ ~valid => turns' = turns
             /\ waiters' = waiters
             /\ nPublished' = nPublished
             /\ chats' = chats /\ heap' = heap /\ userSessions' = userSessions]_vars

\* C36: an undecodable message and a payload of two messages have been
\* handled: one turn was started, for the first message of the payload
C36_Witness ==
    /\ nInbound = 2
    /\ incoming = <<>>
    /\ Len(chats) = 1
    /\ \E t \in TurnIds :
          /\ turns[t].pc = "done"
          /\ turns[t].userID = "u1"
          /\ turns[t].text = "dos"
    /\ \A t \in TurnIds : turns[t].userID # "u2"

====
